---- MODULE Spec2Model ----
(***************************************************************************)
(* paklib: the PAK archive reader (pak_archive) and builder (pak_builder)  *)
(* of src/src/pak.hpp, over a small file system.  Files are sequences of   *)
(* bytes; the header and the entry records are encoded and decoded byte by *)
(* byte as the packed structs lay them out.                                *)
(***************************************************************************)
EXTENDS Integers, Sequences, FiniteSets, TLC

VARIABLES
    disk,             \* path -> [ex : BOOLEAN, data : Seq(byte)], the file system
    handles,          \* every FILE* fopen returned: [path, releases]
    m_file,           \* pak_archive::m_file, 0 is nullptr, else an index of handles
    m_fileSize,       \* pak_archive::m_fileSize
    m_files,          \* pak_archive::m_files, the loaded entry table
    m_errno,          \* pak_archive::m_errno
    m_lookupMap,      \* pak_archive::m_lookupMap, name -> index (0-based, as in the code)
    builder_m_files,  \* pak_builder::m_files, the pending list
    written,          \* the last run of write(): [ok, files], files as it found them
    outbuf,           \* the buffer the caller handed to the last call
    file_size,        \* the size out-parameter the caller handed to the last call
    offset,           \* the offset out-parameter the caller handed to the last call
    sink,             \* the file at the output path handed to the last call
    last,             \* the last call and what it returned: [op, arg, n, out, ret]
    status            \* "run", "destroyed" (~pak_archive ran) or "crashed"

vars == <<disk, handles, m_file, m_fileSize, m_files, m_errno, m_lookupMap,
          builder_m_files, written, outbuf, file_size, offset, sink, last, status>>

readerVars == <<handles, m_file, m_fileSize, m_files, m_errno, m_lookupMap>>
callerVars == <<outbuf, file_size, offset, sink>>
builderVars == <<builder_m_files, written>>

(***************************************************************************)
(* Program constants.                                                      *)
(***************************************************************************)
MAX_PAK_NAME_LEN == 56
HeaderSize == 12          \* sizeof(pak_header_t), packed
EntrySize == 64           \* sizeof(pak_file_t), packed
BufSize == 8192           \* sizeof(buf) of the two copy loops

(***************************************************************************)
(* Bounds of the model.                                                    *)
(***************************************************************************)
MaxPending == 2           \* add_file calls accepted into one pending list
MaxOpens == 2             \* fopen calls of the Reader that return a handle
ReadCap == 4              \* capacity of the buffer handed to read_file

Min(a, b) == IF a < b THEN a ELSE b

Fill(n, b) == [i \in 1..n |-> b]

\* The first n elements of s (all of it when it is shorter).
Take(s, n) == SubSeq(s, 1, Min(n, Len(s)))

\* s without its first n elements.
Drop(s, n) == SubSeq(s, n + 1, Len(s))

(***************************************************************************)
(* uint32_t fields of the packed structs, little endian.  A value stored   *)
(* into a uint32_t field keeps its low 32 bits.                            *)
(***************************************************************************)
EncodeU32(n) ==
    << n % 256, (n \div 256) % 256, (n \div 65536) % 256, (n \div 16777216) % 256 >>

DecodeU32(b) == b[1] + 256 * b[2] + 65536 * b[3] + 16777216 * b[4]

(***************************************************************************)
(* C strings.  CStr is what the std::string constructor takes from a char  *)
(* buffer: the bytes before the first NUL.  StrNCpy is what                *)
(* std::strncpy(dst, src, n) writes for a NUL-terminated src: n bytes, the *)
(* bytes of src up to its terminator and then NULs.                        *)
(***************************************************************************)
RECURSIVE CStr(_)
CStr(buf) ==
    IF buf = <<>> \/ buf[1] = 0 THEN <<>> ELSE <<buf[1]>> \o CStr(Tail(buf))

StrNCpy(src, n) ==
    LET s == CStr(src)
    IN  IF Len(s) >= n THEN SubSeq(s, 1, n) ELSE s \o Fill(n - Len(s), 0)

(***************************************************************************)
(* The file system.                                                        *)
(***************************************************************************)
Magic == <<80, 65, 67, 75>>        \* 'P','A','C','K'

NameA == <<97>>
Name56 == Fill(MAX_PAK_NAME_LEN, 110)
Name57 == Fill(MAX_PAK_NAME_LEN + 1, 110)
NameMissing == <<122>>

\* Names looked up in a Reader.
LookupNames == {NameA, Name56, NameMissing}

Src0 == "empty.bin"
Src1 == "one.bin"
Src2 == "two.bin"
SrcChunk == "chunk.bin"        \* as long as one copy buffer
SrcBig == "big.bin"            \* one copy buffer and 3 bytes
Sources == {Src0, Src1, Src2, SrcChunk, SrcBig}

OutPak == "out.pak"            \* what the Builder writes; absent at first
GoodPak == "good.pak"          \* two entries and their data
ShortPak == "short.pak"        \* 11 bytes, begins with the magic tag
MagicPak == "magic.pak"        \* a whole archive but for its magic tag
TruncPak == "trunc.pak"        \* table_size 64, no table in the file
Trunc32Pak == "trunc32.pak"    \* table_size 32, no table in the file
OobPak == "oob.pak"            \* one entry of size 5, 2 bytes of data in the file
OddPak == "odd.pak"            \* table_size 96, and 96 bytes and more at the table
NoPak == "none.pak"            \* does not exist
Archives == {GoodPak, ShortPak, MagicPak, TruncPak, Trunc32Pak, OobPak, OddPak, NoPak}

ChunkPak == "chunk.pak"        \* entries of one copy buffer and of no bytes
LongPak == "long.pak"          \* entries of one copy buffer and 3 bytes, and of 5
ChunkArchives == {GoodPak, ChunkPak, LongPak}

BadPath == "nodir/x"           \* cannot be created: the directory is missing
Paths == Sources \cup Archives \cup ChunkArchives \cup {OutPak}

File(d) == [ex |-> TRUE, data |-> d]
NoFile == [ex |-> FALSE, data |-> <<>>]

Header(off, size) == Magic \o EncodeU32(off) \o EncodeU32(size)

InitDisk ==
    [p \in Paths |->
        CASE p = Src0 -> File(<<>>)
          [] p = Src1 -> File(<<1, 2, 3>>)
          [] p = Src2 -> File(<<9, 8, 7, 6, 5>>)
          [] p = GoodPak ->
                File(Header(HeaderSize, 2 * EntrySize)
                     \o StrNCpy(NameA, MAX_PAK_NAME_LEN)
                     \o EncodeU32(HeaderSize + 2 * EntrySize) \o EncodeU32(3)
                     \o StrNCpy(Name56, MAX_PAK_NAME_LEN)
                     \o EncodeU32(HeaderSize + 2 * EntrySize + 3) \o EncodeU32(5)
                     \o <<1, 2, 3>> \o <<9, 8, 7, 6, 5>>)
          [] p = ShortPak -> File(Take(Header(HeaderSize, 0), HeaderSize - 1))
          [] p = MagicPak ->
                File(<<80, 65, 67, 88>> \o EncodeU32(HeaderSize) \o EncodeU32(EntrySize)
                     \o StrNCpy(NameA, MAX_PAK_NAME_LEN)
                     \o EncodeU32(HeaderSize + EntrySize) \o EncodeU32(0))
          [] p = TruncPak -> File(Header(HeaderSize, EntrySize))
          [] p = Trunc32Pak -> File(Header(HeaderSize, 32))
          [] p = OobPak ->
                File(Header(HeaderSize, EntrySize)
                     \o StrNCpy(NameA, MAX_PAK_NAME_LEN)
                     \o EncodeU32(HeaderSize + EntrySize) \o EncodeU32(5)
                     \o <<1, 2>>)
          [] p = OddPak ->
                File(Header(HeaderSize, EntrySize + 32)
                     \o StrNCpy(NameA, MAX_PAK_NAME_LEN)
                     \o EncodeU32(HeaderSize + EntrySize + 32) \o EncodeU32(3)
                     \o Fill(32, 0)
                     \o <<1, 2, 3>>)
          [] OTHER -> NoFile]

\* The same disk with the two long sources on it.
BigDisk ==
    [p \in Paths |->
        CASE p = SrcChunk -> File([i \in 1..BufSize |-> (i * 5) % 253])
          [] p = SrcBig -> File([i \in 1..(BufSize + 3) |-> (i * 7) % 251])
          [] OTHER -> InitDisk[p]]

\* The same disk with two archives on it whose entries take one round and
\* two rounds of the copy loop.
ChunkDisk ==
    [p \in Paths |->
        CASE p = ChunkPak ->
                File(Header(HeaderSize, 2 * EntrySize)
                     \o StrNCpy(NameA, MAX_PAK_NAME_LEN)
                     \o EncodeU32(HeaderSize + 2 * EntrySize) \o EncodeU32(BufSize)
                     \o StrNCpy(Name56, MAX_PAK_NAME_LEN)
                     \o EncodeU32(HeaderSize + 2 * EntrySize + BufSize) \o EncodeU32(0)
                     \o BigDisk[SrcChunk].data)
          [] p = LongPak ->
                File(Header(HeaderSize, 2 * EntrySize)
                     \o StrNCpy(NameA, MAX_PAK_NAME_LEN)
                     \o EncodeU32(HeaderSize + 2 * EntrySize) \o EncodeU32(BufSize + 3)
                     \o StrNCpy(Name56, MAX_PAK_NAME_LEN)
                     \o EncodeU32(HeaderSize + 2 * EntrySize + BufSize + 3) \o EncodeU32(5)
                     \o BigDisk[SrcBig].data \o <<9, 8, 7, 6, 5>>)
          [] OTHER -> InitDisk[p]]

\* fopen(path, "wb") and std::ofstream(path) create or truncate; they fail
\* where the file cannot be created.
CanCreate(p) == p # BadPath

(***************************************************************************)
(* Streams.  ReadAt is what a read of n bytes at position pos delivers:    *)
(* the bytes that are there, fewer than n at the end of the file.  WriteAt *)
(* is a write at position pos of an output stream; a position past the end *)
(* leaves a hole that reads as zeros.                                      *)
(***************************************************************************)
ReadAt(data, pos, n) ==
    IF pos >= Len(data) THEN <<>> ELSE SubSeq(data, pos + 1, Min(pos + n, Len(data)))

WriteAt(data, pos, bytes) ==
    LET padded == IF pos > Len(data) THEN data \o Fill(pos - Len(data), 0) ELSE data
    IN  IF bytes = <<>> THEN data
        ELSE Take(padded, pos) \o bytes \o Drop(padded, pos + Len(bytes))

\* fread(buf, n, 1, f) at position pos: the bytes delivered overwrite the
\* start of buf, the rest of buf keeps what it held.
FreadInto(buf, data, pos, n) ==
    LET got == ReadAt(data, pos, n) IN got \o Drop(buf, Len(got))

(***************************************************************************)
(* pak_builder                                                             *)
(***************************************************************************)

\* What add_file is called with: a source on disk and an archive name.  The
\* names are paths, hence without NUL bytes.
AddInputs ==
    { <<Src1, NameA>>, <<Src2, NameA>>, <<Src0, Name56>>, <<Src2, Name56>>,
      <<Src1, Name57>> }

\* Sources that take more than one round of the copy loop.
LongInputs == { <<SrcChunk, NameA>>, <<SrcBig, Name56>> }

\* One process run builds an archive or reads one (main.cpp): the calls on
\* the Builder come before the first call on a Reader.
BuilderTurn == handles = <<>> /\ last.op \in {"none", "add_file", "write"}

\* What the caller hands to a call: a buffer and out-parameters it has set
\* to known values, and an output path at which no file exists yet.
FreshBuf == Fill(ReadCap, 238)
Unset == 0 - 1
FreshCall ==
    /\ outbuf' = FreshBuf
    /\ file_size' = Unset
    /\ offset' = Unset
    /\ sink' = NoFile

Ret(b) == IF b THEN "true" ELSE "false"

\* A call and what it returned: the archive name or path it was given, the
\* size and the output path where it takes one.
Call(op, arg, n, out, ret) == [op |-> op, arg |-> arg, n |-> n, out |-> out, ret |-> ret]

\* pak_builder::file_t as push_back({}) makes it and add_file fills it.
NewPending(disk_path, pak_path, sz) ==
    [disk_path |-> disk_path,
     pak_path |-> StrNCpy(pak_path, MAX_PAK_NAME_LEN) \o <<0>>,
     offset |-> 0,
     size |-> sz]

\* The length check with >= in place of >.
NameFitsBelow(pak_path) == Len(pak_path) < MAX_PAK_NAME_LEN

NameFits(pak_path) == Len(pak_path) <= MAX_PAK_NAME_LEN

add_file(disk_path, pak_path) ==
    /\ status = "run"
    /\ BuilderTurn
    /\ disk[disk_path].ex
    /\ IF ~NameFits(pak_path)
       THEN /\ UNCHANGED builder_m_files
            /\ last' = Call("add_file", pak_path, 0, "", "false")
       ELSE /\ Len(builder_m_files) < MaxPending
            /\ builder_m_files' =
                   Append(builder_m_files,
                          NewPending(disk_path, pak_path, Len(disk[disk_path].data)))
            /\ last' = Call("add_file", pak_path, 0, "", "true")
    /\ FreshCall
    /\ UNCHANGED <<disk, written, status>>
    /\ UNCHANGED readerVars

\* The values an uninitialized byte of the stack may hold.
Garbage == {0, 204}

\* pass 1 of write(): the cumulative data offset of each pending file.
RECURSIVE AssignOffsets(_, _)
AssignOffsets(files, curoff) ==
    IF files = <<>> THEN <<>>
    ELSE <<[files[1] EXCEPT !.offset = curoff]>>
         \o AssignOffsets(Tail(files), curoff + files[1].size)

\* A copy that stops after the terminator, as strcpy does, and leaves the
\* rest of the field as it was: the bytes it writes.
EntryNameUnpadded(pak_path) ==
    IF Len(CStr(pak_path)) >= MAX_PAK_NAME_LEN
    THEN SubSeq(CStr(pak_path), 1, MAX_PAK_NAME_LEN)
    ELSE CStr(pak_path) \o <<0>>

\* std::strncpy(ent.name, file.pak_path, MAX_PAK_NAME_LEN)
EntryName(pak_path) == StrNCpy(pak_path, MAX_PAK_NAME_LEN)

\* The pak_file_t ent of pass 1 as it is written: declared without an
\* initializer (every byte g), then name, size and offset are assigned.
EntryRecord(f, g) ==
    WriteAt(WriteAt(WriteAt(Fill(EntrySize, g), 0, EntryName(f.pak_path)),
                    MAX_PAK_NAME_LEN + 4, EncodeU32(f.size)),
            MAX_PAK_NAME_LEN, EncodeU32(f.offset))

RECURSIVE EntryTable(_, _)
EntryTable(files, g) ==
    IF files = <<>> THEN <<>>
    ELSE EntryRecord(files[1], g) \o EntryTable(Tail(files), g)

\* The copy loop of pass 2: istream.read(buf, sizeof(buf)), then
\* stream.write(buf, min(sz, sizeof(buf))).  A read that comes up short sets
\* the stream's failbit, and every later read delivers nothing.
RECURSIVE BuilderCopy(_, _, _, _, _, _, _)
BuilderCopy(src, srcpos, failed, sz, buf, stream, pos) ==
    IF sz <= 0 THEN stream
    ELSE LET got == IF failed THEN <<>> ELSE ReadAt(src, srcpos, BufSize)
             buf2 == got \o Drop(buf, Len(got))
             n == Min(sz, BufSize)
         IN  BuilderCopy(src, srcpos + Len(got), failed \/ Len(got) < BufSize,
                         sz - BufSize, buf2, WriteAt(stream, pos, Take(buf2, n)), pos + n)

\* pass 2 of write(): [ok, data], ok false when a source cannot be opened.
RECURSIVE Pass2(_, _, _)
Pass2(files, stream, g) ==
    IF files = <<>> THEN [ok |-> TRUE, data |-> stream]
    ELSE IF ~disk[files[1].disk_path].ex THEN [ok |-> FALSE, data |-> stream]
    ELSE Pass2(Tail(files),
               BuilderCopy(disk[files[1].disk_path].data, 0, FALSE, files[1].size,
                           Fill(BufSize, g), stream, files[1].offset),
               g)

\* hdr.offset = sizeof(pak_header_t); hdr.size = m_files.size() * sizeof(pak_file_t)
WriteHeader(n) == Header(HeaderSize, n * EntrySize)

\* A curoff that starts one byte beyond the end of the table.
LaidWithGap(files) == AssignOffsets(files, HeaderSize + Len(files) * EntrySize + 1)

\* write() on a stream that opened: the pending list with its offsets, and
\* [ok, data], the bytes the stream holds when write() returns.
Laid(files) == AssignOffsets(files, HeaderSize + Len(files) * EntrySize)

WriteStream(files, g) ==
    Pass2(Laid(files), WriteHeader(Len(files)) \o EntryTable(Laid(files), g), g)

\* A write() that ends with m_files.clear().
Consumed(files) == <<>>

\* m_files when write() returns: the list it found, each file with the
\* offset pass 1 stored in it.  Nothing removes a file from it.
AfterWrite(files) == Laid(files)

\* The names, sizes and sources of a pending list.
Pending(files) ==
    [i \in 1..Len(files) |->
        [disk_path |-> files[i].disk_path, pak_path |-> files[i].pak_path,
         size |-> files[i].size]]

NoRun == [ok |-> FALSE, files |-> <<>>]

write(file, g) ==
    /\ status = "run"
    /\ BuilderTurn
    /\ IF ~CanCreate(file)
       THEN /\ UNCHANGED <<disk, builder_m_files, written>>
            /\ last' = Call("write", file, 0, "", "false")
       ELSE LET res == WriteStream(builder_m_files, g)
            IN  /\ disk' = [disk EXCEPT ![file] = File(res.data)]
                /\ builder_m_files' = AfterWrite(builder_m_files)
                /\ written' = [ok |-> res.ok, files |-> Pending(builder_m_files)]
                /\ last' = Call("write", file, 0, "", Ret(res.ok))
    /\ FreshCall
    /\ UNCHANGED status
    /\ UNCHANGED readerVars

(***************************************************************************)
(* pak_builder on files of up to 4 GiB.  A size or an offset of 32 bits    *)
(* and more is a pair <<hi, lo>> of value hi * 2^16 + lo with lo < 2^16:   *)
(* size_t keeps all of hi, a uint32_t field keeps hi % 2^16.  Such a file  *)
(* is known by its size only, and of the archive only the header and the   *)
(* table are bytes: the data region is where pass 2 seeks to.              *)
(***************************************************************************)
Half == 65536

Wide(n) == <<n \div Half, n % Half>>

WideAdd(a, b) ==
    <<a[1] + b[1] + (a[2] + b[2]) \div Half, (a[2] + b[2]) % Half>>

WideGreater(a, b) == a[1] > b[1] \/ (a[1] = b[1] /\ a[2] > b[2])

\* A size_t value stored into a uint32_t.
ToU32(a) == <<a[1] % Half, a[2]>>

UINT32_MAX == <<Half - 1, Half - 1>>

\* The four bytes of a uint32_t field, little endian, and their value.
EncodeWide(a) ==
    <<ToU32(a)[2] % 256, ToU32(a)[2] \div 256, ToU32(a)[1] % 256, ToU32(a)[1] \div 256>>

DecodeWide(b) == <<b[3] + 256 * b[4], b[1] + 256 * b[2]>>

\* What std::filesystem::file_size(disk_path) returns for the large
\* sources: 100 bytes, 2 GiB, 4 GiB - 1 and 4 GiB.
SizedSources ==
    { <<"100.bin", Wide(100)>>, <<"2g.bin", <<Half \div 2, 0>> >>,
      <<"4g-1.bin", UINT32_MAX>>, <<"4g.bin", <<Half, 0>> >> }

\* add_file on a source of size sz.
add_file_sized(disk_path, sz, pak_path) ==
    /\ status = "run"
    /\ BuilderTurn
    /\ IF ~NameFits(pak_path) \/ WideGreater(sz, UINT32_MAX)
       THEN /\ UNCHANGED builder_m_files
            /\ last' = Call("add_file", pak_path, 0, "", "false")
       ELSE /\ Len(builder_m_files) < MaxPending
            /\ builder_m_files' =
                   Append(builder_m_files,
                          [NewPending(disk_path, pak_path, sz) EXCEPT !.offset = Wide(0)])
            /\ last' = Call("add_file", pak_path, 0, "", "true")
    /\ FreshCall
    /\ UNCHANGED <<disk, written, status>>
    /\ UNCHANGED readerVars

\* pass 1 of write() with curoff a size_t: file.offset = curoff.
RECURSIVE AssignWide(_, _)
AssignWide(files, curoff) ==
    IF files = <<>> THEN <<>>
    ELSE <<[files[1] EXCEPT !.offset = curoff]>>
         \o AssignWide(Tail(files), WideAdd(curoff, files[1].size))

\* The pak_file_t ent of pass 1: ent.size = file.size; ent.offset = curoff.
EntryRecordWide(f) ==
    EntryName(f.pak_path) \o EncodeWide(f.offset) \o EncodeWide(f.size)

RECURSIVE EntryTableWide(_)
EntryTableWide(files) ==
    IF files = <<>> THEN <<>>
    ELSE EntryRecordWide(files[1]) \o EntryTableWide(Tail(files))

LaidWide(files) == AssignWide(files, Wide(HeaderSize + Len(files) * EntrySize))

\* write() on a list of such files: the header and the table it writes, and
\* in each file.offset the position pass 2 seeks to, stream.seekp(file.offset),
\* before it copies the file.
write_sized(file) ==
    /\ status = "run"
    /\ BuilderTurn
    /\ IF ~CanCreate(file)
       THEN /\ UNCHANGED <<disk, builder_m_files, written>>
            /\ last' = Call("write", file, 0, "", "false")
       ELSE /\ disk' = [disk EXCEPT ![file] =
                           File(WriteHeader(Len(builder_m_files))
                                \o EntryTableWide(LaidWide(builder_m_files)))]
            /\ builder_m_files' = LaidWide(builder_m_files)
            /\ written' = [ok |-> TRUE, files |-> builder_m_files]
            /\ last' = Call("write", file, 0, "", "true")
    /\ FreshCall
    /\ UNCHANGED status
    /\ UNCHANGED readerVars

(***************************************************************************)
(* pak_archive                                                             *)
(***************************************************************************)

\* fclose(h).  A FILE that is closed is gone; a second fclose of the same
\* pointer is counted, and the count stops at 2.
Fclose(hs, h) ==
    [hs EXCEPT ![h] = [path |-> "", releases |-> Min(hs[h].releases + 1, 2)]]

\* h points at a FILE that was closed before: fclose(h) is undefined.
Stale(hs, h) == h # 0 /\ hs[h].releases >= 1

\* A close() that leaves the FILE open.
NoRelease(hs, h) == hs

\* `if (m_file) fclose(m_file);` of close() and of the destructor.
ReleaseIfSet(hs, h) == IF h # 0 THEN Fclose(hs, h) ELSE hs

\* m_file after the fclose(m_file) of a failure path of open(): as it was.
AfterFailedOpen(h) == h

\* One pak_file_t read from 64 bytes of the table.
DecodeEntry(b) ==
    [name |-> SubSeq(b, 1, MAX_PAK_NAME_LEN),
     offset |-> DecodeU32(SubSeq(b, MAX_PAK_NAME_LEN + 1, MAX_PAK_NAME_LEN + 4)),
     size |-> DecodeU32(SubSeq(b, MAX_PAK_NAME_LEN + 5, EntrySize))]

\* m_files after resize(count) and a fread that delivered `got` into it:
\* value-initialized records overwritten by the bytes that arrived.  Bytes
\* beyond the vector's storage land outside it.
LoadTable(count, got) ==
    LET raw == Take(got, count * EntrySize)
        mem == raw \o Fill(count * EntrySize - Len(raw), 0)
    IN  [i \in 1..count |-> DecodeEntry(SubSeq(mem, (i - 1) * EntrySize + 1, i * EntrySize))]

\* The key open() and the iterator make of an entry's name field: the field
\* copied into a zeroed char[MAX_PAK_NAME_LEN+1], read as a C string.
EntryKey(name) == CStr(name \o <<0>>)

\* m_lookupMap[name] = i in place of insert: the later entry takes the key.
MapInsertOverwrite(map, key, i) ==
    [k \in DOMAIN map \cup {key} |-> IF k = key THEN i ELSE map[k]]

\* An insert of the count of entries so far in place of the position.
MapInsertCount(map, key, i) == IF key \in DOMAIN map THEN map ELSE map @@ (key :> i + 1)

\* m_lookupMap.insert({name, i}): an existing key keeps its value.
MapInsert(map, key, i) == IF key \in DOMAIN map THEN map ELSE map @@ (key :> i)

RECURSIVE PopulateLookup(_, _, _)
PopulateLookup(files, i, map) ==
    IF i >= Len(files) THEN map
    ELSE PopulateLookup(files, i + 1, MapInsert(map, EntryKey(files[i + 1].name), i))

\* A magic check that stops after 'P','A','C'.
MagicOkPrefix(hdr) == hdr[1] = 80 /\ hdr[2] = 65 /\ hdr[3] = 67

MagicOk(hdr) == hdr[1] = 80 /\ hdr[2] = 65 /\ hdr[3] = 67 /\ hdr[4] = 75

TooShort(size) == size < HeaderSize

\* m_files.resize(hdr.size / sizeof(pak_file_t))
TableCount(size) == size \div EntrySize

\* m_files when a failure path of open() returns: as the resize and the
\* fread left it.
FailedTable(files) == files

\* open() from the fseek to the table on, on a file whose header passed:
\* what it returns and what it leaves in m_errno, m_files and m_lookupMap.
\* `release` is the fclose of a failure path, `overrun` a fread that wrote
\* past the end of m_files.
ReadTable(data, hdr) ==
    LET off == DecodeU32(SubSeq(hdr, 5, 8))
        size == DecodeU32(SubSeq(hdr, 9, 12))
        count == TableCount(size)
        got == ReadAt(data, off, size)
        files == LoadTable(count, got)
    IN  IF count = 0
        THEN \* m_files.at(0) throws std::out_of_range
             [ret |-> "threw", errno |-> "NoError", release |-> FALSE,
              overrun |-> FALSE, files |-> <<>>, map |-> <<>>]
        ELSE IF Len(got) # size
        THEN [ret |-> "false", errno |-> "InvalidFileEntry", release |-> TRUE,
              overrun |-> Len(got) > count * EntrySize,
              files |-> FailedTable(files), map |-> <<>>]
        ELSE [ret |-> "true", errno |-> "NoError", release |-> FALSE,
              overrun |-> Len(got) > count * EntrySize, files |-> files,
              map |-> PopulateLookup(files, 0, <<>>)]

\* open() after fopen succeeded, on a file holding `data`.
OpenFile(data) ==
    IF TooShort(Len(data)) \/ ~MagicOk(Take(data, HeaderSize))
    THEN [ret |-> "false", errno |-> "InvalidHeader", release |-> TRUE,
          overrun |-> FALSE, files |-> <<>>, map |-> <<>>]
    ELSE ReadTable(data, Take(data, HeaderSize))

\* Undefined behaviour happened in the call: the process goes on or dies.
AfterUB(ub) ==
    IF ub THEN status' \in {"run", "crashed"} ELSE status' = "run"

open(path) ==
    /\ status = "run"
    /\ LET closed == ReleaseIfSet(handles, m_file)      \* close()
           ub1 == Stale(handles, m_file)
       IN  IF ~disk[path].ex
           THEN /\ handles' = closed
                /\ m_file' = 0
                /\ m_errno' = "OpenFailed"
                /\ m_files' = <<>>
                /\ m_lookupMap' = <<>>
                /\ UNCHANGED m_fileSize
                /\ last' = Call("open", path, 0, "", "false")
                /\ AfterUB(ub1)
           ELSE /\ Len(handles) < MaxOpens
                /\ LET h == Len(handles) + 1
                       opened == Append(closed, [path |-> path, releases |-> 0])
                       r == OpenFile(disk[path].data)
                   IN  /\ handles' = IF r.release THEN Fclose(opened, h) ELSE opened
                       /\ m_file' = IF r.release THEN AfterFailedOpen(h) ELSE h
                       /\ m_fileSize' = Len(disk[path].data)
                       /\ m_errno' = r.errno
                       /\ m_files' = r.files
                       /\ m_lookupMap' = r.map
                       /\ last' = Call("open", path, 0, "", r.ret)
                       /\ AfterUB(ub1 \/ r.overrun)
    /\ FreshCall
    /\ UNCHANGED disk
    /\ UNCHANGED builderVars

close ==
    /\ status = "run"
    /\ handles' = ReleaseIfSet(handles, m_file)
    /\ m_file' = 0
    /\ m_files' = <<>>
    /\ m_lookupMap' = <<>>
    /\ last' = Call("close", "", 0, "", "")
    /\ AfterUB(Stale(handles, m_file))
    /\ FreshCall
    /\ UNCHANGED <<m_fileSize, m_errno, disk>>
    /\ UNCHANGED builderVars

\* ~pak_archive()
Destroy ==
    /\ status = "run"
    /\ handles' = ReleaseIfSet(handles, m_file)
    /\ IF Stale(handles, m_file)
       THEN status' \in {"destroyed", "crashed"}
       ELSE status' = "destroyed"
    /\ last' = Call("destroy", "", 0, "", "")
    /\ FreshCall
    /\ UNCHANGED <<m_file, m_fileSize, m_files, m_errno, m_lookupMap, disk>>
    /\ UNCHANGED builderVars

good == m_file # 0 /\ m_errno = "NoError"
last_error == m_errno
file_count == Len(m_files)

\* The sequence a range-for over the archive yields: begin() to end(), each
\* iterator dereferenced.
Enumerate ==
    [i \in 1..Len(m_files) |->
        [name |-> EntryKey(m_files[i].name),
         offset |-> m_files[i].offset, size |-> m_files[i].size]]

\* m_lookupMap.find(pak_path) != end()
Found(pak_path) == pak_path \in DOMAIN m_lookupMap

\* m_files[it->second]
Entry(pak_path) == m_files[m_lookupMap[pak_path] + 1]

\* The bytes of the archive m_file reads.
ArchiveData == disk[handles[m_file].path].data

stat(pak_path) ==
    /\ status = "run"
    /\ IF Found(pak_path)
       THEN /\ file_size' = Entry(pak_path).size
            /\ offset' = Entry(pak_path).offset
            /\ last' = Call("stat", pak_path, 0, "", "true")
       ELSE /\ file_size' = Unset
            /\ offset' = Unset
            /\ last' = Call("stat", pak_path, 0, "", "false")
    /\ outbuf' = FreshBuf
    /\ sink' = NoFile
    /\ UNCHANGED <<disk, status>>
    /\ UNCHANGED builderVars
    /\ UNCHANGED readerVars

\* The buffer after fread(outbuf, size, 1, m_file) at the entry's offset.
ReadInto(buf, f, size) == FreadInto(buf, ArchiveData, f.offset, size)

\* What that fread returns: 1 when a whole item of `size` bytes arrived.
ReadCount(f, size) ==
    IF size > 0 /\ Len(ReadAt(ArchiveData, f.offset, size)) = size THEN 1 ELSE 0

read_file(pak_path, size) ==
    /\ status = "run"
    /\ IF Found(pak_path)
       THEN /\ outbuf' = ReadInto(FreshBuf, Entry(pak_path), size)
            /\ last' = Call("read_file", pak_path, size, "",
                             Ret(ReadCount(Entry(pak_path), size) = 1))
       ELSE /\ outbuf' = FreshBuf
            /\ last' = Call("read_file", pak_path, size, "", "false")
    /\ file_size' = Unset
    /\ offset' = Unset
    /\ sink' = NoFile
    /\ UNCHANGED <<disk, status>>
    /\ UNCHANGED builderVars
    /\ UNCHANGED readerVars

\* A round that moves a whole buffer whatever is left.
ChunkLenFull(sz) == BufSize

\* sizeof(buf) > sz ? sz : sizeof(buf)
ChunkLen(sz) == Min(sz, BufSize)

\* The sizes of the chunks the loop moves for an entry of sz bytes, one per
\* round: for(; sz > 0; sz -= sizeof(buf)).
RECURSIVE ChunkSizes(_)
ChunkSizes(sz) ==
    IF sz <= 0 THEN <<>> ELSE <<ChunkLen(sz)>> \o ChunkSizes(sz - BufSize)

\* The copy loop of extract_file: fread then fwrite of min(sz, sizeof(buf))
\* bytes, whatever the fread delivered.
RECURSIVE ExtractLoop(_, _, _, _, _)
ExtractLoop(data, pos, sz, buf, out) ==
    IF sz <= 0 THEN out
    ELSE LET n == ChunkLen(sz)
             buf2 == FreadInto(buf, data, pos, n)
         IN  ExtractLoop(data, pos + Len(ReadAt(data, pos, n)), sz - BufSize, buf2,
                         out \o Take(buf2, n))

\* extract_file with the fopen(out, "wb") moved before the lookup.
ExtractSinkEager(pak_path, out, g) ==
    IF ~CanCreate(out) THEN NoFile
    ELSE IF ~Found(pak_path) THEN File(<<>>)
    ELSE File(ExtractLoop(ArchiveData, Entry(pak_path).offset, Entry(pak_path).size,
                          Fill(BufSize, g), <<>>))

\* The file at `out` when extract_file returns: fopen(out, "wb") comes after
\* the lookup.
ExtractSink(pak_path, out, g) ==
    IF Found(pak_path) /\ CanCreate(out)
    THEN File(ExtractLoop(ArchiveData, Entry(pak_path).offset, Entry(pak_path).size,
                          Fill(BufSize, g), <<>>))
    ELSE NoFile

extract_file(pak_path, out, g) ==
    /\ status = "run"
    /\ sink' = ExtractSink(pak_path, out, g)
    /\ last' = Call("extract_file", pak_path, 0, out,
                     Ret(Found(pak_path) /\ CanCreate(out)))
    /\ outbuf' = FreshBuf
    /\ file_size' = Unset
    /\ offset' = Unset
    /\ UNCHANGED <<disk, status>>
    /\ UNCHANGED builderVars
    /\ UNCHANGED readerVars

(***************************************************************************)
(* The programs.  Spec: a Builder fills and writes OutPak, then a Reader   *)
(* works on OutPak.  SpecReader: a Reader works on the archives it finds   *)
(* on disk, well-formed and not.  SpecBuilder: a Builder alone, with long  *)
(* sources among those it registers.  SpecExtract: a Reader extracts from  *)
(* well-formed archives with entries of no bytes, of a few bytes, of one    *)
(* copy buffer and of more.  SpecSized: a Builder alone, on sources of up   *)
(* to 4 GiB.                                                               *)
(***************************************************************************)
ReadSizes == {3, ReadCap}
OutPaths == {"x.bin", BadPath}

\* Reader and Builder as constructed, no call made yet.
Constructed ==
    /\ handles = <<>>
    /\ m_file = 0
    /\ m_fileSize = 0
    /\ m_files = <<>>
    /\ m_errno = "NoError"
    /\ m_lookupMap = <<>>
    /\ builder_m_files = <<>>
    /\ written = NoRun
    /\ outbuf = FreshBuf
    /\ file_size = Unset
    /\ offset = Unset
    /\ sink = NoFile
    /\ last = Call("none", "", 0, "", "")
    /\ status = "run"

Init == disk = InitDisk /\ Constructed
InitBig == disk = BigDisk /\ Constructed
InitChunk == disk = ChunkDisk /\ Constructed

AddFile == \E in \in AddInputs : add_file(in[1], in[2])
AddLong == \E in \in LongInputs : add_file(in[1], in[2])
Write == \E file \in {OutPak, BadPath}, g \in Garbage : write(file, g)
OpenBuilt == open(OutPak)
OpenOnDisk == \E path \in Archives : open(path)
OpenChunked == \E path \in ChunkArchives : open(path)
Close == close
Stat == \E name \in LookupNames : stat(name)
ReadFile == \E name \in LookupNames, size \in ReadSizes : read_file(name, size)
ExtractFile ==
    \E name \in LookupNames, out \in OutPaths, g \in Garbage : extract_file(name, out, g)

Next ==
    \/ AddFile
    \/ Write
    \/ OpenBuilt
    \/ Close
    \/ Stat
    \/ ReadFile
    \/ ExtractFile

Spec == Init /\ [][Next]_vars

NextReader ==
    \/ OpenOnDisk
    \/ Close
    \/ Destroy
    \/ Stat
    \/ ReadFile
    \/ ExtractFile

SpecReader == Init /\ [][NextReader]_vars

NextBuilder ==
    \/ AddFile
    \/ AddLong
    \/ Write

SpecBuilder == InitBig /\ [][NextBuilder]_vars

NextExtract ==
    \/ OpenChunked
    \/ Close
    \/ Stat
    \/ ExtractFile

SpecExtract == InitChunk /\ [][NextExtract]_vars

AddSized ==
    \E src \in SizedSources, name \in {NameA, Name56, Name57} :
        add_file_sized(src[1], src[2], name)
WriteSized == \E file \in {OutPak, BadPath} : write_sized(file)

NextSized ==
    \/ AddSized
    \/ WriteSized

SpecSized == Init /\ [][NextSized]_vars

(***************************************************************************)
(* Properties.                                                             *)
(***************************************************************************)

\* The Reader holds a handle it has not released.
HoldsHandle == m_file # 0 /\ handles[m_file].releases = 0

\* The Reader's last open() returned true and no close() followed.
IsOpen == HoldsHandle /\ m_errno = "NoError" /\ m_files # <<>>

\* OutPak is what the last run of write() made of the files registered.
Built == written.ok /\ disk[OutPak].ex

\* The positions at which `name` was registered.
Registered(name) ==
    {i \in 1..Len(written.files) : CStr(written.files[i].pak_path) = name}

\* The bytes of the source registered at position i.
Original(i) == disk[written.files[i].disk_path].data

First(S) == CHOOSE i \in S : \A j \in S : i <= j
Latest(S) == CHOOSE i \in S : \A j \in S : j <= i

\* C1: round trip.  Once write() has built OutPak from the files registered,
\* open(OutPak) returns true and file_count() is the number of files
\* registered; on the Reader that opened it, extract_file of a registered
\* name to a path that can be created returns true and leaves there the bytes
\* of a file registered under that name.
RoundTrip ==
    /\ (Built /\ last.op = "open")
          => (last.ret = "true" /\ file_count = Len(written.files))
    /\ (Built /\ HoldsHandle /\ last.op = "extract_file"
              /\ Registered(last.arg) # {} /\ CanCreate(last.out))
          => (/\ last.ret = "true"
              /\ sink.ex
              /\ \E i \in Registered(last.arg) : sink.data = Original(i))

\* C2: empty archive.  open() of an archive written from an empty pending
\* list returns true; then good() is true, file_count() is 0 and the
\* enumeration is empty.
EmptyArchiveOpens ==
    (Built /\ written.files = <<>> /\ last.op = "open")
        => (last.ret = "true" /\ good /\ file_count = 0 /\ Enumerate = <<>>)

\* What the Reader shows of the archive built, while it is open: every
\* registered file in registration order, and for the name of the last
\* lookup the entry Pick chooses among those registered under it.
EnumeratesAll ==
    /\ Len(Enumerate) = Len(written.files)
    /\ \A i \in 1..Len(written.files) :
          /\ Enumerate[i].name = CStr(written.files[i].pak_path)
          /\ Enumerate[i].size = written.files[i].size

ResolvesTo(i) ==
    /\ last.op = "stat" =>
          (file_size = Enumerate[i].size /\ offset = Enumerate[i].offset)
    /\ last.op = "read_file" =>
          Take(outbuf, Min(last.n, Len(Original(i)))) = Take(Original(i), last.n)
    /\ (last.op = "extract_file" /\ CanCreate(last.out)) => sink = File(Original(i))

LookedUp ==
    /\ Built /\ IsOpen
    /\ last.op \in {"stat", "read_file", "extract_file"}
    /\ Registered(last.arg) # {}

\* A name registered twice, for sources of different sizes.
Twice(name) ==
    \E i, j \in Registered(name) : written.files[i].size # written.files[j].size

\* C3 as stated: with a name registered twice, the enumeration yields both
\* entries in registration order and a lookup by name resolves to the entry
\* registered later.
DuplicateResolvesToLater ==
    (LookedUp /\ Twice(last.arg))
        => (EnumeratesAll /\ ResolvesTo(Latest(Registered(last.arg))))

\* C3 as the code has it: with a name registered twice, the enumeration
\* yields both entries in registration order and a lookup by name (stat,
\* read_file, extract_file) resolves to the entry registered first.
DuplicateResolvesToFirst ==
    (LookedUp /\ Twice(last.arg))
        => (EnumeratesAll /\ ResolvesTo(First(Registered(last.arg))))

DuplicateLookedUp ==
    /\ LookedUp /\ Twice(last.arg)
    /\ last.op = "extract_file" /\ last.ret = "true"
    /\ sink = File(Original(First(Registered(last.arg))))
    /\ sink # File(Original(Latest(Registered(last.arg))))

\* C4: while the Reader is not Open (never opened, closed, or left by an
\* open() that returned false) file_count() is 0 and the enumeration is
\* empty.
ClosedReaderIsEmpty ==
    (status = "run" /\ ~HoldsHandle) => (file_count = 0 /\ Enumerate = <<>>)

\* C5: no handle is released twice, and once the Reader is destroyed every
\* handle it acquired has been released exactly once.
HandlesReleasedOnce ==
    /\ \A h \in 1..Len(handles) : handles[h].releases <= 1
    /\ status = "destroyed" => \A h \in 1..Len(handles) : handles[h].releases = 1

\* The file open() was last called on has no whole header, or a header whose
\* magic tag is not 'PACK'.
MalformedHeader(path) ==
    /\ disk[path].ex
    /\ \/ Len(disk[path].data) < HeaderSize
       \/ Take(disk[path].data, 4) # Magic

\* C6: an open() of a file shorter than a header, or whose first 4 bytes are
\* not 'PACK', returns false with last_error() = InvalidHeader, and good() is
\* false afterwards, whatever the Reader held before the call.
MalformedHeaderRejected ==
    (status = "run" /\ last.op = "open" /\ MalformedHeader(last.arg))
        => (last.ret = "false" /\ last_error = "InvalidHeader" /\ ~good)

\* Bad magic rejected by a Reader that had an archive open before the call.
ReopenedOnBadMagic ==
    /\ status = "run" /\ last.op = "open" /\ last.arg = MagicPak
    /\ Len(handles) = 2 /\ handles[1].releases = 1
    /\ last.ret = "false"

\* The header of the file at path is whole and valid, and names a table of
\* size > 0 that ends beyond the end of the file.
TruncatedTable(path) ==
    /\ disk[path].ex
    /\ Len(disk[path].data) >= HeaderSize
    /\ Take(disk[path].data, 4) = Magic
    /\ DecodeU32(SubSeq(disk[path].data, 9, 12)) > 0
    /\ DecodeU32(SubSeq(disk[path].data, 5, 8))
         + DecodeU32(SubSeq(disk[path].data, 9, 12)) > Len(disk[path].data)

\* C7: an open() of a file with a valid header whose table (of any size > 0)
\* ends beyond the end of the file returns false with last_error() =
\* InvalidFileEntry.
TruncatedTableRejected ==
    (last.op = "open" /\ TruncatedTable(last.arg))
        => (last.ret = "false" /\ last_error = "InvalidFileEntry")

\* C8: add_file with a name longer than 56 bytes returns false and leaves
\* the pending list as it was; with a name of at most 56 bytes (of exactly
\* 56 too) it returns true and appends one record that holds every byte of
\* the name.
OversizedNameRejected ==
    [][last'.op = "add_file" =>
          IF Len(last'.arg) > MAX_PAK_NAME_LEN
          THEN last'.ret = "false" /\ builder_m_files' = builder_m_files
          ELSE /\ last'.ret = "true"
               /\ Len(builder_m_files') = Len(builder_m_files) + 1
               /\ SubSeq(builder_m_files', 1, Len(builder_m_files)) = builder_m_files
               /\ CStr(builder_m_files'[Len(builder_m_files')].pak_path) = last'.arg]_vars

\* A 57-byte name was refused by a Builder that holds a 56-byte name.
RefusedAfterLongest ==
    /\ last.op = "add_file" /\ last.ret = "false"
    /\ Len(last.arg) = MAX_PAK_NAME_LEN + 1
    /\ \E i \in 1..Len(builder_m_files) :
          Len(CStr(builder_m_files[i].pak_path)) = MAX_PAK_NAME_LEN

\* C9: the archive a run of write() leaves is the archive any run of write()
\* over the same pending list leaves, whatever the uninitialized memory of
\* the run holds: header, entry records (name tails too) and data.
WriteDeterministic ==
    (last.op = "write" /\ last.ret = "true")
        => \A g \in Garbage :
              WriteStream(builder_m_files, g) = [ok |-> TRUE, data |-> disk[OutPak].data]

\* write() ran over two files, one with a name shorter than its field and
\* one that took two rounds of the copy loop.
WroteShortName ==
    /\ last.op = "write" /\ last.ret = "true"
    /\ Len(builder_m_files) = 2
    /\ \E i \in 1..2 : Len(CStr(builder_m_files[i].pak_path)) < MAX_PAK_NAME_LEN
    /\ \E i \in 1..2 : builder_m_files[i].size > BufSize
    /\ Len(disk[OutPak].data) > HeaderSize + 2 * EntrySize + BufSize

\* The name is the name of no entry of the loaded table.
NotInArchive(name) == \A i \in 1..Len(m_files) : Enumerate[i].name # name

\* C10: stat, read_file and extract_file of a name that is not in the
\* archive return false and change nothing: the entry table, the lookup
\* index, the handle and the error state are as before, the caller's buffer
\* and out-parameters are as the caller handed them, no file is created at
\* the output path.
LookupMissNoEffect ==
    [][(last'.op \in {"stat", "read_file", "extract_file"} /\ NotInArchive(last'.arg))
          => /\ last'.ret = "false"
             /\ UNCHANGED <<handles, m_file, m_fileSize, m_files, m_errno, m_lookupMap>>
             /\ UNCHANGED <<disk, status>>
             /\ outbuf' = FreshBuf /\ file_size' = Unset /\ offset' = Unset
             /\ sink' = NoFile]_vars

\* A miss of extract_file on an open Reader, with an output path that could
\* have been created.
MissedOnOpenReader ==
    /\ IsOpen /\ m_lookupMap # <<>>
    /\ last.op = "extract_file" /\ last.arg = NameMissing /\ CanCreate(last.out)
    /\ last.ret = "false"

\* The last call was read_file on a name the index holds.
ReadHit == last.op = "read_file" /\ Found(last.arg)

\* C11: read_file on a name present in the archive reads exactly
\* min(entry.size, max_size) bytes at the entry's offset into the buffer,
\* the rest of the buffer staying as the caller left it, and returns true
\* when the archive holds those bytes.
ReadsMinOfSizes ==
    ReadHit =>
        LET f == Entry(last.arg)
            n == Min(f.size, last.n)
        IN  /\ outbuf = FreadInto(FreshBuf, ArchiveData, f.offset, n)
            /\ Len(ReadAt(ArchiveData, f.offset, n)) = n => last.ret = "true"

\* The entry records of the table that the header of an archive points at.
TableOn(data) ==
    LET off == DecodeU32(SubSeq(data, 5, 8))
        size == DecodeU32(SubSeq(data, 9, 12))
    IN  LoadTable(TableCount(size), ReadAt(data, off, size))

\* The table of an archive lists exactly the files at positions S of a
\* list, in their order.
Lists(data, files, S) ==
    /\ Len(TableOn(data)) = Cardinality(S)
    /\ \A i \in S :
          \E k \in 1..Len(TableOn(data)) :
             /\ k = Cardinality({j \in S : j <= i})
             /\ EntryKey(TableOn(data)[k].name) = CStr(files[i].pak_path)
             /\ TableOn(data)[k].size = files[i].size

\* The last call was a write() that completed.
Wrote == last.op = "write" /\ last.ret = "true"

\* The files of the pending list that a run of write() has laid out, and
\* those registered since: add_file makes a file with offset 0, pass 1
\* stores an offset beyond the header in it.
LaidBefore == {i \in 1..Len(builder_m_files) : builder_m_files[i].offset # 0}
AddedSince == {i \in 1..Len(builder_m_files) : builder_m_files[i].offset = 0}

\* C12 as stated: a write() that completes leaves the pending list empty,
\* and a write() after an earlier write() and a later add_file produces an
\* archive of only the files registered after the earlier write().
PendingConsumed ==
    [][(last'.op = "write" /\ last'.ret = "true") =>
          /\ builder_m_files' = <<>>
          /\ Lists(disk'[OutPak].data, builder_m_files, AddedSince)]_vars

\* C12 as the code has it: write() keeps every pending file, so the list
\* holds after write() the names, sizes and sources it held before, and each
\* write() produces an archive of every file registered so far on the
\* Builder, those already written by an earlier write() among them.
PendingKept ==
    [][(last'.op = "write" /\ last'.ret = "true") =>
          /\ Pending(builder_m_files') = Pending(builder_m_files)
          /\ Lists(disk'[OutPak].data, builder_m_files, 1..Len(builder_m_files))]_vars

\* After a write() of one file that completed, add_file has registered a
\* second: the list holds both, the archive on disk the first.
AddedAfterWrite ==
    /\ last.op = "add_file" /\ last.ret = "true"
    /\ written.ok
    /\ LaidBefore = {1} /\ AddedSince = {2}
    /\ Lists(disk[OutPak].data, builder_m_files, {1})

\* The bytes of the archive that an entry addresses.
EntryData(f) == SubSeq(ArchiveData, f.offset + 1, f.offset + f.size)

\* C13: whenever the Reader is Open, every entry of its table has
\* offset + size <= the length of the archive, so a read_file or extract_file
\* that returns true has delivered bytes of the archive only, and
\* extract_file returns true only with the entry's bytes in the sink.
EntriesInsideArchive ==
    (status = "run" /\ IsOpen) =>
        /\ \A i \in 1..Len(m_files) :
              m_files[i].offset + m_files[i].size <= Len(ArchiveData)
        /\ (last.op = "extract_file" /\ last.ret = "true")
              => sink.data = EntryData(Entry(last.arg))

\* The file at `path` has a valid header, a table_size that is not a
\* multiple of the size of an entry record, and table_size bytes at
\* table_offset.
OddTable(path) ==
    /\ disk[path].ex
    /\ ~MalformedHeader(path)
    /\ LET off == DecodeU32(SubSeq(disk[path].data, 5, 8))
           size == DecodeU32(SubSeq(disk[path].data, 9, 12))
       IN  size % EntrySize # 0 /\ off + size <= Len(disk[path].data)

\* C14: open() of a file with a valid header whose table_size is not a
\* multiple of 64, the file holding table_size bytes at table_offset,
\* returns false with last_error() = InvalidFileEntry, and reads no more
\* bytes into the table than its floor(table_size / 64) entries hold, so
\* the call has no undefined behaviour to die of.
OddTableRejected ==
    (last.op = "open" /\ OddTable(last.arg)) =>
        /\ last.ret = "false"
        /\ last_error = "InvalidFileEntry"
        /\ status = "run"

\* The sizes of the first k files of a list, added up.
RECURSIVE SizeSum(_, _)
SizeSum(files, k) == IF k = 0 THEN 0 ELSE SizeSum(files, k - 1) + files[k].size

\* C15: after a write() that completed on n pending files of sizes
\* s_1..s_n, the header of the archive holds table_offset 12 and table_size
\* 64 * n, and the i-th entry record holds size s_i and offset
\* 12 + 64 * n + s_1 + ... + s_(i-1): the data regions start right after the
\* table, each begins where the one before it ends, in registration order,
\* and the archive ends with the last of them.
LayoutCumulative ==
    Wrote =>
        LET data == disk[OutPak].data
            n == Len(written.files)
            t == TableOn(data)
        IN  /\ DecodeU32(SubSeq(data, 5, 8)) = HeaderSize
            /\ DecodeU32(SubSeq(data, 9, 12)) = EntrySize * n
            /\ Len(t) = n
            /\ \A i \in 1..n :
                  /\ t[i].size = written.files[i].size
                  /\ t[i].offset = HeaderSize + EntrySize * n + SizeSum(written.files, i - 1)
            /\ n > 0 => t[1].offset = HeaderSize + EntrySize * n
            /\ \A i \in 1..(n - 1) : t[i + 1].offset = t[i].offset + t[i].size
            /\ Len(data) = HeaderSize + EntrySize * n + SizeSum(written.files, n)

\* A write() of two files, the first longer than one copy buffer, the
\* second not empty.
WroteTwoRegions ==
    /\ Wrote
    /\ Len(written.files) = 2
    /\ written.files[1].size > BufSize
    /\ written.files[2].size > 0
    /\ TableOn(disk[OutPak].data)[2].offset
          = HeaderSize + 2 * EntrySize + written.files[1].size

\* The last call was extract_file on a name the index holds, with an output
\* path that can be created.
ExtractHit == last.op = "extract_file" /\ Found(last.arg) /\ CanCreate(last.out)

RECURSIVE SeqSum(_)
SeqSum(c) == IF c = <<>> THEN 0 ELSE c[1] + SeqSum(Tail(c))

\* C16: extract_file on a name present in the archive returns true with
\* exactly entry.size bytes in the sink, the bytes of the entry, whether
\* entry.size is 0, below the size of the copy buffer, a multiple of it or
\* a non-multiple above it; the loop moves them in ceil(entry.size / 8192)
\* chunks, every chunk but the last a full buffer and the last of 1 to 8192
\* bytes.
ExtractWritesEntrySize ==
    ExtractHit =>
        LET f == Entry(last.arg)
            c == ChunkSizes(f.size)
        IN  /\ last.ret = "true"
            /\ sink.ex
            /\ Len(sink.data) = f.size
            /\ sink.data = EntryData(f)
            /\ SeqSum(c) = f.size
            /\ Len(c) = (f.size + BufSize - 1) \div BufSize
            /\ \A k \in 1..(Len(c) - 1) : c[k] = BufSize
            /\ c # <<>> => c[Len(c)] \in 1..BufSize

\* An entry longer than one copy buffer and not a multiple of it has been
\* extracted: a full chunk and a remainder of 3 bytes.
ExtractedRemainder ==
    /\ ExtractHit
    /\ Entry(last.arg).size = BufSize + 3
    /\ ChunkSizes(Entry(last.arg).size) = <<BufSize, 3>>
    /\ Len(sink.data) = BufSize + 3

\* The entry table open() loads from the file at `path`: none when the file
\* is missing or its header is refused, else the records the header points
\* at, zeros where the file has no bytes for them.
TableAt(path) ==
    IF ~disk[path].ex \/ MalformedHeader(path) THEN <<>>
    ELSE TableOn(disk[path].data)

\* The names of a table, as the index and the iterator read them.
NamesOf(table) == {EntryKey(table[i].name) : i \in 1..Len(table)}

\* C17: open() on a Reader that is Open releases the handle of the prior
\* archive, exactly once, and when it returns the table holds records of
\* the file now opened only and the index resolves no name to anything
\* else: after a failure no name is resolvable, after a success the index
\* maps exactly the names of the second archive, each to a record of it.
ReopenReplaces ==
    [][(status = "run" /\ IsOpen /\ last'.op = "open" /\ status' = "run") =>
          /\ handles'[m_file].releases = 1
          /\ m_file' # m_file
          /\ m_files' \in {<<>>, TableAt(last'.arg)}
          /\ IF last'.ret = "true"
             THEN /\ m_files' = TableAt(last'.arg)
                  /\ DOMAIN m_lookupMap' = NamesOf(TableAt(last'.arg))
                  /\ \A name \in DOMAIN m_lookupMap' :
                        /\ m_lookupMap'[name] \in 0..(Len(m_files') - 1)
                        /\ EntryKey(m_files'[m_lookupMap'[name] + 1].name) = name
             ELSE m_lookupMap' = <<>>]_vars

\* A second open() that succeeded, on an archive with one name where the
\* first had two, the first handle released and the second held.
ReopenedOther ==
    /\ status = "run" /\ IsOpen
    /\ last.op = "open" /\ last.arg = OobPak /\ last.ret = "true"
    /\ Len(handles) = 2 /\ handles[1].releases = 1 /\ m_file = 2
    /\ DOMAIN m_lookupMap = {NameA}
    /\ ~Found(Name56)

\* C19: while the Reader object lives, every value of the lookup index is a
\* position of the entry table, 0 <= index < file_count(), and the index
\* holds a name only while m_file is a handle that has not been released:
\* a lookup that hits indexes inside the table and reads through an open
\* handle.
LookupIndexValid ==
    status = "run" =>
        /\ \A name \in DOMAIN m_lookupMap :
              m_lookupMap[name] \in 0..(file_count - 1)
        /\ m_lookupMap # <<>> => HoldsHandle
        /\ (last.op \in {"stat", "read_file", "extract_file"} /\ last.ret = "true")
              => (HoldsHandle /\ Found(last.arg))

\* The last entry of a table of two has been read through the index.
ReadLastEntry ==
    /\ status = "run" /\ HoldsHandle
    /\ file_count = 2
    /\ last.op = "read_file" /\ last.ret = "true"
    /\ m_lookupMap[last.arg] = file_count - 1

\* The offset field of the i-th entry record of OutPak.
OffsetField(i) ==
    DecodeWide(SubSeq(disk[OutPak].data,
                      HeaderSize + (i - 1) * EntrySize + MAX_PAK_NAME_LEN + 1,
                      HeaderSize + (i - 1) * EntrySize + MAX_PAK_NAME_LEN + 4))

\* C18: after a write() that completed on files add_file accepted, each of
\* at most 2^32 - 1 bytes, the 32-bit offset field of every entry record
\* holds the position at which pass 2 wrote that file's data, also when
\* 12 + 64 * n + the sizes before it reaches 2^32.
RecordedOffsetIsPosition ==
    Wrote =>
        \A i \in 1..Len(builder_m_files) :
            OffsetField(i) = builder_m_files[i].offset

====
